---- MODULE Spec2Model ----
(***************************************************************************)
(* A model of the hybrid reference extractor (src/hybrid_extract.ts):      *)
(* page extraction, sentence splitting, regular-expression candidate       *)
(* detection, rules-only mapping, batched normalisation, dedupe/merge and   *)
(* the writing of the outputs.                                              *)
(*                                                                          *)
(* Text is a sequence of one-character strings, so that the regular         *)
(* expressions, trim, toLowerCase and string concatenation are computed     *)
(* character by character as the JavaScript engine computes them.           *)
(***************************************************************************)
EXTENDS Integers, Sequences, FiniteSets, TLC

(***************************************************************************)
(* Characters                                                               *)
(***************************************************************************)
UpperSeq ==
    <<"A","B","C","D","E","F","G","H","I","J","K","L","M",
      "N","O","P","Q","R","S","T","U","V","W","X","Y","Z">>
LowerSeq ==
    <<"a","b","c","d","e","f","g","h","i","j","k","l","m",
      "n","o","p","q","r","s","t","u","v","w","x","y","z">>
DigitSeq == <<"0","1","2","3","4","5","6","7","8","9">>

Range(f) == {f[k] : k \in DOMAIN f}

Upper == Range(UpperSeq)
Lower == Range(LowerSeq)
Digit == Range(DigitSeq)

\* \s of a JavaScript regular expression (the ASCII part of it)
WhiteSpace == {" ", "\t", "\n", "\r", "\f"}
\* \w of a JavaScript regular expression
WordChars == Upper \cup Lower \cup Digit \cup {"_"}
\* U+201C, the left double quotation mark of splitSentences' lookahead class
LDQuo == "LDQUO"

\* String.prototype.toLowerCase / toUpperCase on one character
ToLowerChar(c) ==
    IF c \in Upper THEN LowerSeq[CHOOSE k \in DOMAIN UpperSeq : UpperSeq[k] = c]
    ELSE c
ToUpperChar(c) ==
    IF c \in Lower THEN UpperSeq[CHOOSE k \in DOMAIN LowerSeq : LowerSeq[k] = c]
    ELSE c
toLowerCase(s) == [k \in DOMAIN s |-> ToLowerChar(s[k])]

\* s.slice(a - 1, b - 1): the characters a .. b-1 (1-based)
Slice(s, a, b) == SubSeq(s, a, b - 1)

RECURSIVE Concat(_)
\* the concatenation of a sequence of sequences
Concat(ss) == IF ss = <<>> THEN <<>> ELSE Head(ss) \o Concat(Tail(ss))

RECURSIVE Join(_, _)
\* Array.prototype.join(sep) of an array of strings
Join(ss, sep) ==
    IF ss = <<>> THEN <<>>
    ELSE IF Len(ss) = 1 THEN ss[1]
    ELSE ss[1] \o sep \o Join(Tail(ss), sep)

\* String.prototype.trim
trim(s) ==
    LET keep == {k \in DOMAIN s : s[k] \notin WhiteSpace}
    IN IF keep = {} THEN <<>>
       ELSE LET lo == CHOOSE k \in keep : \A j \in keep : k <= j
                hi == CHOOSE k \in keep : \A j \in keep : k >= j
            IN SubSeq(s, lo, hi)

(***************************************************************************)
(* Regular expressions: a backtracking matcher over the syntax tree.        *)
(* Ends(n, s, i, ic) lists, in the engine's order of preference, the        *)
(* positions at which a match of node n that starts at position i of s can  *)
(* end; ic is the i flag.  The engine takes the first.                      *)
(***************************************************************************)
Cls(S) == [t |-> "cls", neg |-> FALSE, set |-> S]
NotCls(S) == [t |-> "cls", neg |-> TRUE, set |-> S]
Cat(xs) == [t |-> "seq", xs |-> xs]
Alt(xs) == [t |-> "alt", xs |-> xs]
\* x{min,max}; max = -1 is unbounded; lazy is the ? suffix
Rep(x, min, max, lazy) == [t |-> "rep", x |-> x, min |-> min, max |-> max, lazy |-> lazy]
Star(x) == Rep(x, 0, -1, FALSE)
Plus(x) == Rep(x, 1, -1, FALSE)
LazyPlus(x) == Rep(x, 1, -1, TRUE)
Opt(x) == Rep(x, 0, 1, FALSE)
\* a literal: its characters one after another
Lit(str) == [t |-> "lit", str |-> str]
WordBoundary == [t |-> "wb"]
LookBehind(S) == [t |-> "behind", set |-> S]
LookAhead(S) == [t |-> "ahead", set |-> S]

InCls(c, n, ic) ==
    LET hit == IF ic THEN \E d \in n.set : ToUpperChar(d) = ToUpperChar(c)
               ELSE c \in n.set
    IN hit # n.neg

IsWordAt(s, i) == i >= 1 /\ i <= Len(s) /\ s[i] \in WordChars

\* two characters are the same, up to case under the i flag
SameChar(c, d, ic) == IF ic THEN ToUpperChar(c) = ToUpperChar(d) ELSE c = d

RECURSIVE Ends(_, _, _, _)
RECURSIVE EndsFrom(_, _, _, _)
\* the ends of n from each of the starts, in order
EndsFrom(n, s, starts, ic) ==
    IF starts = <<>> THEN <<>>
    ELSE Ends(n, s, Head(starts), ic) \o EndsFrom(n, s, Tail(starts), ic)

Ends(n, s, i, ic) ==
    CASE n.t = "cls" ->
           IF i <= Len(s) /\ InCls(s[i], n, ic) THEN <<i + 1>> ELSE <<>>
      [] n.t = "lit" ->
           IF /\ i + Len(n.str) - 1 <= Len(s)
              /\ \A k \in DOMAIN n.str : SameChar(s[i + k - 1], n.str[k], ic)
           THEN <<i + Len(n.str)>> ELSE <<>>
      [] n.t = "wb" ->
           IF IsWordAt(s, i - 1) # IsWordAt(s, i) THEN <<i>> ELSE <<>>
      [] n.t = "behind" ->
           IF i >= 2 /\ s[i - 1] \in n.set THEN <<i>> ELSE <<>>
      [] n.t = "ahead" ->
           IF i <= Len(s) /\ s[i] \in n.set THEN <<i>> ELSE <<>>
      [] n.t = "seq" ->
           IF Len(n.xs) = 0 THEN <<i>>
           ELSE EndsFrom(Cat(Tail(n.xs)), s, Ends(Head(n.xs), s, i, ic), ic)
      [] n.t = "alt" ->
           IF Len(n.xs) = 0 THEN <<>>
           ELSE Ends(Head(n.xs), s, i, ic) \o Ends(Alt(Tail(n.xs)), s, i, ic)
      [] n.t = "rep" ->
           LET once == SelectSeq(Ends(n.x, s, i, ic), LAMBDA e : e > i)
               rest == Rep(n.x, IF n.min > 0 THEN n.min - 1 ELSE 0,
                           IF n.max > 0 THEN n.max - 1 ELSE n.max, n.lazy)
               more == IF n.max = 0 THEN <<>> ELSE EndsFrom(rest, s, once, ic)
               stop == IF n.min = 0 THEN <<i>> ELSE <<>>
           IN IF n.lazy THEN stop \o more ELSE more \o stop

\* the positions of s at which the expression matches
Starts(re, s, ic) == {j \in 1..(Len(s) + 1) : Ends(re, s, j, ic) # <<>>}

RECURSIVE PickMatches(_, _, _, _, _)
\* the matches taken from position i on: the leftmost start, its preferred end,
\* and on from that end (from the next position after an empty match)
PickMatches(re, s, ic, starts, i) ==
    LET later == {h \in starts : h >= i}
    IN IF later = {} THEN <<>>
       ELSE LET j == CHOOSE h \in later : \A g \in later : h <= g
                e == Ends(re, s, j, ic)[1]
            IN <<[from |-> j, to |-> e]>>
               \o PickMatches(re, s, ic, starts, IF e = j THEN j + 1 ELSE e)

\* the successive matches [from, to) of a g-flagged expression, left to right
MatchAll(re, s, ic) == PickMatches(re, s, ic, Starts(re, s, ic), 1)

\* String.prototype.match(rx) || [] for a g-flagged rx: the matched substrings
match(s, rx) ==
    LET ms == MatchAll(rx.re, s, rx.ic)
    IN [k \in DOMAIN ms |-> Slice(s, ms[k].from, ms[k].to)]

RECURSIVE ReplaceFrom(_, _, _, _, _)
ReplaceFrom(s, ms, k, pos, repl) ==
    IF k > Len(ms) THEN Slice(s, pos, Len(s) + 1)
    ELSE Slice(s, pos, ms[k].from) \o repl \o ReplaceFrom(s, ms, k + 1, ms[k].to, repl)
\* String.prototype.replace(rx, repl) for a g-flagged rx and a literal repl
replace(s, rx, repl) == ReplaceFrom(s, MatchAll(rx.re, s, rx.ic), 1, 1, repl)

\* String.prototype.split(rx) for an expression that never matches empty
split(s, rx) ==
    LET ms == MatchAll(rx.re, s, rx.ic)
    IN [k \in 1..(Len(ms) + 1) |->
          Slice(s, IF k = 1 THEN 1 ELSE ms[k - 1].to,
                   IF k > Len(ms) THEN Len(s) + 1 ELSE ms[k].from)]

(***************************************************************************)
(* PATTERNS (hybrid_extract.ts, lines 92-103), in Object.entries order      *)
(***************************************************************************)
\* /SEBI\/HO\/[A-Z0-9/-]+\/P?\/CIR\/\d{4}\/\d+/g
RxCircularCode ==
    [ic |-> FALSE,
     re |-> Cat(<<Lit(<<"S","E","B","I","/","H","O","/">>),
                  Plus(Cls(Upper \cup Digit \cup {"/", "-"})),
                  Lit(<<"/">>), Opt(Cls({"P"})), Lit(<<"/","C","I","R","/">>),
                  Rep(Cls(Digit), 4, 4, FALSE), Lit(<<"/">>), Plus(Cls(Digit))>>)]

\* /\bMaster Circular (?:for|on)\s+[^.,;\n]+?(?:dated\s+[A-Z][a-z]+\s+\d{1,2},\s*\d{4})?/gi
RxMasterCircular ==
    [ic |-> TRUE,
     re |-> Cat(<<WordBoundary,
                  Lit(<<"M","a","s","t","e","r"," ","C","i","r","c","u","l","a","r"," ">>),
                  Alt(<<Lit(<<"f","o","r">>), Lit(<<"o","n">>)>>),
                  Plus(Cls(WhiteSpace)),
                  LazyPlus(NotCls({".", ",", ";", "\n"})),
                  Opt(Cat(<<Lit(<<"d","a","t","e","d">>), Plus(Cls(WhiteSpace)),
                            Cls(Upper), Plus(Cls(Lower)), Plus(Cls(WhiteSpace)),
                            Rep(Cls(Digit), 1, 2, FALSE), Lit(<<",">>),
                            Star(Cls(WhiteSpace)), Rep(Cls(Digit), 4, 4, FALSE)>>))>>)]

\* /SEBI\s*\([^)]+\)\s*Regulations,\s*\d{4}/gi
RxRegulationSet ==
    [ic |-> TRUE,
     re |-> Cat(<<Lit(<<"S","E","B","I">>), Star(Cls(WhiteSpace)), Lit(<<"(">>),
                  Plus(NotCls({")"})), Lit(<<")">>), Star(Cls(WhiteSpace)),
                  Lit(<<"R","e","g","u","l","a","t","i","o","n","s",",">>),
                  Star(Cls(WhiteSpace)), Rep(Cls(Digit), 4, 4, FALSE)>>)]

\* the regulation pattern without its sub-clause suffixes
RxRegulationNoSubClause ==
    [ic |-> FALSE,
     re |-> Cat(<<WordBoundary, Lit(<<"R","e","g","u","l","a","t","i","o","n">>),
                  Opt(Cls({"s"})), Plus(Cls(WhiteSpace)), Plus(Cls(Digit))>>)]

\* /\bRegulation(?:s)?\s+\d+(?:\([0-9A-Za-z]+\))*/g
RxRegulation ==
    [ic |-> FALSE,
     re |-> Cat(<<WordBoundary, Lit(<<"R","e","g","u","l","a","t","i","o","n">>),
                  Opt(Cls({"s"})), Plus(Cls(WhiteSpace)), Plus(Cls(Digit)),
                  Star(Cat(<<Lit(<<"(">>), Plus(Cls(Digit \cup Upper \cup Lower)),
                             Lit(<<")">>)>>))>>)]

\* /\bSection\s+\d+(?:\(\d+\))*\s+of the\s+[^.,\n]+?Act,\s*\d{4}/gi
RxActSection ==
    [ic |-> TRUE,
     re |-> Cat(<<WordBoundary, Lit(<<"S","e","c","t","i","o","n">>),
                  Plus(Cls(WhiteSpace)), Plus(Cls(Digit)),
                  Star(Cat(<<Lit(<<"(">>), Plus(Cls(Digit)), Lit(<<")">>)>>)),
                  Plus(Cls(WhiteSpace)), Lit(<<"o","f"," ","t","h","e">>),
                  Plus(Cls(WhiteSpace)), LazyPlus(NotCls({".", ",", "\n"})),
                  Lit(<<"A","c","t",",">>), Star(Cls(WhiteSpace)),
                  Rep(Cls(Digit), 4, 4, FALSE)>>)]

\* /\bSchedule\s+[IVXLC]+\b/g
RxSchedule ==
    [ic |-> FALSE,
     re |-> Cat(<<WordBoundary, Lit(<<"S","c","h","e","d","u","l","e">>),
                  Plus(Cls(WhiteSpace)), Plus(Cls({"I", "V", "X", "L", "C"})),
                  WordBoundary>>)]

\* /\bChapter\s+\d+\b/g
RxChapter ==
    [ic |-> FALSE,
     re |-> Cat(<<WordBoundary, Lit(<<"C","h","a","p","t","e","r">>),
                  Plus(Cls(WhiteSpace)), Plus(Cls(Digit)), WordBoundary>>)]

\* /\bClause\s+\d+(?:\.\d+)*\b/g
RxClause ==
    [ic |-> FALSE,
     re |-> Cat(<<WordBoundary, Lit(<<"C","l","a","u","s","e">>),
                  Plus(Cls(WhiteSpace)), Plus(Cls(Digit)),
                  Star(Cat(<<Lit(<<".">>), Plus(Cls(Digit))>>)), WordBoundary>>)]

\* /\bhttps?:\/\/\S+/gi
RxUrl ==
    [ic |-> TRUE,
     re |-> Cat(<<WordBoundary, Lit(<<"h","t","t","p">>), Opt(Cls({"s"})),
                  Lit(<<":","/","/">>), Plus(NotCls(WhiteSpace))>>)]

\* the CandidateKind names, in the order of PATTERNS' keys
Kinds ==
    <<"circularCode", "masterCircular", "regulationSet", "regulation",
      "actSection", "schedule", "chapter", "clause", "url">>

PATTERNS(kind) ==
    CASE kind = "circularCode" -> RxCircularCode
      [] kind = "masterCircular" -> RxMasterCircular
      [] kind = "regulationSet" -> RxRegulationSet
      [] kind = "regulation" -> RxRegulation
      [] kind = "actSection" -> RxActSection
      [] kind = "schedule" -> RxSchedule
      [] kind = "chapter" -> RxChapter
      [] kind = "clause" -> RxClause
      [] kind = "url" -> RxUrl

(***************************************************************************)
(* Helpers                                                                  *)
(***************************************************************************)
\* /-\s*\n\s*/g
RxHyphenBreak ==
    [ic |-> FALSE,
     re |-> Cat(<<Lit(<<"-">>), Star(Cls(WhiteSpace)), Lit(<<"\n">>),
                  Star(Cls(WhiteSpace))>>)]
\* /\r/g
RxCr == [ic |-> FALSE, re |-> Lit(<<"\r">>)]
\* /\n+/g
RxNewlines == [ic |-> FALSE, re |-> Plus(Cls({"\n"}))]
\* /\s{2,}/g
RxSpaces == [ic |-> FALSE, re |-> Rep(Cls(WhiteSpace), 2, -1, FALSE)]

dehyphenate(input) ==
    LET s == replace(input, RxHyphenBreak, <<>>)
    IN replace(replace(replace(s, RxCr, <<>>), RxNewlines, <<" ">>), RxSpaces, <<" ">>)

\* /(?<=[\.\?\!;])\s+(?=[A-Z(LDQuo"'])/g
RxSentenceBreak ==
    [ic |-> FALSE,
     re |-> Cat(<<LookBehind({".", "?", "!", ";"}), Plus(Cls(WhiteSpace)),
                  LookAhead(Upper \cup {"(", LDQuo, "\"", "'"})>>)]

splitSentences(text) ==
    LET parts == split(text, RxSentenceBreak)
        chunks == SelectSeq([k \in DOMAIN parts |-> trim(parts[k])],
                            LAMBDA t : t # <<>>)
    IN IF Len(chunks) > 0 THEN chunks ELSE <<trim(text)>>

(***************************************************************************)
(* Values                                                                   *)
(***************************************************************************)
\* a nullable value: None is null, Some(x) is x
None == {}
Some(x) == {x}
Val(o) == CHOOSE x \in o : TRUE

\* JavaScript truthiness of a nullable string and of a nullable number
TruthyStr(o) == o # None /\ Val(o) # <<>>
TruthyNum(o) == o # None /\ Val(o) # 0

\* (o || "")
OrEmpty(o) == IF TruthyStr(o) THEN Val(o) ELSE <<>>

Max(a, b) == IF a >= b THEN a ELSE b

RECURSIVE Unique(_)
\* Array.from(new Set(xs)): the first occurrence of each element, in order
Unique(xs) ==
    IF xs = <<>> THEN <<>>
    ELSE LET init == Unique(SubSeq(xs, 1, Len(xs) - 1))
             last == xs[Len(xs)]
         IN IF last \in Range(init) THEN init ELSE Append(init, last)

RECURSIVE SortAsc(_)
\* xs.sort((a, b) => a - b) of an array of integers
SortAsc(xs) ==
    IF xs = <<>> THEN <<>>
    ELSE LET k == CHOOSE j \in DOMAIN xs : \A h \in DOMAIN xs : xs[j] <= xs[h]
         IN <<xs[k]>> \o SortAsc(SubSeq(xs, 1, k - 1) \o SubSeq(xs, k + 1, Len(xs)))

(***************************************************************************)
(* Dedupe & merge (hybrid_extract.ts, lines 311-337)                        *)
(***************************************************************************)
\* a key without the type: what a dedupe on identifier and title alone would use
keyWithoutType(r) ==
    <<"",
      toLowerCase(OrEmpty(r.identifier)) \o <<"|">> \o toLowerCase(OrEmpty(r.title))>>

\* `${r.type}|${(r.identifier || "").toLowerCase()}|${(r.title || "").toLowerCase()}`
\* A type is a word of the enumeration and holds no '|', so the string is
\* given by the type and the text after the first '|'.
key(r) ==
    <<r.type,
      toLowerCase(OrEmpty(r.identifier)) \o <<"|">> \o toLowerCase(OrEmpty(r.title))>>

\* the position of key k in the map (0: map.get(k) is undefined)
MapIndex(m, k) ==
    IF \E j \in DOMAIN m : m[j].k = k THEN CHOOSE j \in DOMAIN m : m[j].k = k ELSE 0

\* a merge that appends the incoming pages and does not sort again
MergeIntoUnsorted(found, r) ==
    [found EXCEPT
       !.pages = Unique(found.pages \o r.pages),
       !.snippets = Unique(found.snippets \o r.snippets),
       !.confidence = Max(found.confidence, r.confidence),
       !.url = IF ~TruthyStr(found.url) /\ TruthyStr(r.url) THEN r.url ELSE found.url,
       !.anchorPageHint =
           IF ~TruthyNum(found.anchorPageHint) /\ TruthyNum(r.anchorPageHint)
           THEN r.anchorPageHint ELSE found.anchorPageHint]

\* the else branch of the loop body: found is merged with r
MergeInto(found, r) ==
    [found EXCEPT
       !.pages = SortAsc(Unique(found.pages \o r.pages)),
       !.snippets = Unique(found.snippets \o r.snippets),
       !.confidence = Max(found.confidence, r.confidence),
       !.url = IF ~TruthyStr(found.url) /\ TruthyStr(r.url) THEN r.url ELSE found.url,
       !.anchorPageHint =
           IF ~TruthyNum(found.anchorPageHint) /\ TruthyNum(r.anchorPageHint)
           THEN r.anchorPageHint ELSE found.anchorPageHint]

\* an insertion that stores r as it came
InsertNewAsIs(r) == r

\* the then branch of the loop body: r is normalised and stored
InsertNew(r) ==
    [r EXCEPT !.pages = SortAsc(Unique(r.pages)), !.snippets = Unique(r.snippets)]

\* one iteration of dedupe's loop; the map is the sequence of its entries in
\* insertion order
DedupeStep(m, r) ==
    LET k == key(r)
        j == MapIndex(m, k)
    IN IF j = 0 THEN Append(m, [k |-> k, v |-> InsertNew(r)])
       ELSE [m EXCEPT ![j].v = MergeInto(m[j].v, r)]

\* Array.from(map.values())
MapValues(m) == [j \in DOMAIN m |-> m[j].v]

RECURSIVE DedupeMap(_)
DedupeMap(rs) ==
    IF rs = <<>> THEN <<>>
    ELSE DedupeStep(DedupeMap(SubSeq(rs, 1, Len(rs) - 1)), rs[Len(rs)])

dedupe(rs) == MapValues(DedupeMap(rs))

(***************************************************************************)
(* Candidate finder (hybrid_extract.ts, lines 202-244)                      *)
(***************************************************************************)
\* (s.match(PATTERNS.url) || [])[0] ?? null
UrlInSentence(s) ==
    LET ms == match(s, PATTERNS("url"))
    IN IF Len(ms) > 0 THEN Some(ms[1]) ELSE None

\* the candidates of one kind in one sentence
KindCandidates(page, s, kind) ==
    LET ms == match(s, PATTERNS(kind))
    IN [j \in DOMAIN ms |->
          [page |-> page, sentence |-> trim(s), match |-> trim(ms[j]),
           kind |-> kind, url |-> UrlInSentence(s)]]

\* the candidates of one sentence, pattern by pattern
SentenceCandidates(page, s) ==
    Concat([k \in DOMAIN Kinds |-> KindCandidates(page, s, Kinds[k])])

\* page-level link annotations as url candidates
LinkCandidates(p) ==
    [j \in DOMAIN p.urls |->
       [page |-> p.page, sentence |-> <<>>, match |-> p.urls[j],
        kind |-> "url", url |-> Some(p.urls[j])]]

PageCandidates(p) ==
    LET ss == splitSentences(p.text)
    IN Concat([k \in DOMAIN ss |-> SentenceCandidates(p.page, ss[k])])
       \o LinkCandidates(p)

\* `${c.page}|${c.kind}|${c.match}|${c.sentence}`: a page number and a kind
\* hold no '|', so the string is given by them and the text after the second '|'
CandidateKey(c) == <<c.page, c.kind, c.match \o <<"|">> \o c.sentence>>

RECURSIVE UniqueBy(_)
\* the first candidate of each key, in insertion order
UniqueBy(cs) ==
    IF cs = <<>> THEN <<>>
    ELSE LET init == UniqueBy(SubSeq(cs, 1, Len(cs) - 1))
             last == cs[Len(cs)]
         IN IF \E j \in DOMAIN init : CandidateKey(init[j]) = CandidateKey(last)
            THEN init ELSE Append(init, last)

findCandidates(pages) ==
    UniqueBy(Concat([k \in DOMAIN pages |-> PageCandidates(pages[k])]))

(***************************************************************************)
(* Rules-only mapping (hybrid_extract.ts, lines 356-383)                    *)
(***************************************************************************)
\* confidences are counted in tenths: 4 is 0.4
RulesConfidence == 4

KindType(kind) ==
    CASE kind = "masterCircular" -> "Master Circular"
      [] kind = "circularCode" -> "Circular"
      [] kind \in {"regulation", "regulationSet"} -> "Regulation"
      [] kind = "actSection" -> "Act Section"
      [] kind = "schedule" -> "Schedule"
      [] kind = "chapter" -> "Chapter"
      [] kind = "clause" -> "Clause"
      [] kind = "url" -> "URL"
      [] OTHER -> "Other"

\* a mapping that takes the match as identifier for every kind
RulesItemMatchAsIdentifier(c) ==
    [type |-> KindType(c.kind),
     title |-> None,
     identifier |-> Some(c.match),
     url |-> IF c.kind = "url" THEN Some(c.match) ELSE c.url,
     anchorPageHint |-> None,
     pages |-> <<c.page>>,
     snippets |-> <<IF c.sentence # <<>> THEN c.sentence ELSE c.match>>,
     confidence |-> RulesConfidence]

RulesItem(c) ==
    [type |-> KindType(c.kind),
     title |-> None,
     identifier |-> IF c.kind \in {"circularCode", "regulation"} THEN Some(c.match) ELSE None,
     url |-> IF c.kind = "url" THEN Some(c.match) ELSE c.url,
     anchorPageHint |-> None,
     pages |-> <<c.page>>,
     snippets |-> <<IF c.sentence # <<>> THEN c.sentence ELSE c.match>>,
     confidence |-> RulesConfidence]

RulesOnly(cs) == [k \in DOMAIN cs |-> RulesItem(cs[k])]

(***************************************************************************)
(* Schema (hybrid_extract.ts, lines 19-44)                                  *)
(***************************************************************************)
Types ==
    {"Circular", "Master Circular", "Regulation", "Act Section", "Schedule",
     "Chapter", "Clause", "Stock Exchange Circular", "Depository Circular",
     "URL", "Other"}

\* ReferenceItem: the constraints a parsed JSON value can fail
ItemValid(r) ==
    /\ r.type \in Types
    /\ Len(r.pages) >= 1
    /\ Len(r.snippets) >= 1
    /\ r.confidence >= 0 /\ r.confidence <= 10

\* ReferenceEnvelope
EnvelopeValid(env) == \A k \in DOMAIN env.references : ItemValid(env.references[k])

(***************************************************************************)
(* The documents, command lines and Normalizer answers of the model         *)
(***************************************************************************)
TextCircularAndRegulation ==
    <<"R","e","f","e","r"," ","t","o"," ","S","E","B","I","/","H","O","/",
      "M","R","D","/","D","S","A","/","C","I","R","/","2","0","2","3","/",
      "4","5"," ","d","a","t","e","d"," ","J","a","n"," ","1",","," ","2",
      "0","2","3"," ","a","n","d"," ","R","e","g","u","l","a","t","i","o",
      "n"," ","9","(","1",")",".">>
TextTwoSubClauses ==
    <<"S","e","e"," ","R","e","g","u","l","a","t","i","o","n"," ","1","2",
      "(","3",")"," ","a","n","d"," ","1","2","(","3","A",")"," ","o","f",
      " ","t","h","e"," ","R","e","g","u","l","a","t","i","o","n","s",".">>
TextCodeAndClause ==
    <<"C","l","a","u","s","e"," ","3"," ","o","f"," ","S","E","B","I","/",
      "H","O","/","M","R","D","/","P","/","C","I","R","/","2","0","2","3",
      "/","4","5",".">>
TextScheduleOne ==
    <<"S","e","e"," ","S","c","h","e","d","u","l","e"," ","I"," ","a","t",
      " ","h","t","t","p",":","/","/","a",".","i","n",".">>
TextScheduleTwo ==
    <<"A","l","s","o"," ","S","c","h","e","d","u","l","e"," ","I","I"," ",
      "i","s"," ","a","t"," ","h","t","t","p",":","/","/","b",".","i","n">>
TextBrokenWord ==
    <<"R","e","g","u","l","a","-","\n">>
TextBrokenRest ==
    <<"t","i","o","n"," ","5"," ","a","p","p","l","i","e","s">>
TextNothing ==
    <<"N","o","t","h","i","n","g"," ","h","e","r","e">>
TextClauseFour ==
    <<"C","l","a","u","s","e"," ","4",","," ","S","E","B","I"," ","(","A",
      ")"," ","R","e","g","u","l","a","t","i","o","n","s",","," ","2","0",
      "1","5"," ","a","t"," ","h","t","t","p",":","/","/","a",".","i","n",
      ".">>
TextClauseFive ==
    <<"C","l","a","u","s","e"," ","5",","," ","S","E","B","I"," ","(","B",
      ")"," ","R","e","g","u","l","a","t","i","o","n","s",","," ","2","0",
      "1","8"," ","a","t"," ","h","t","t","p",":","/","/","b",".","i","n">>
UrlA ==
    <<"h","t","t","p",":","/","/","a",".","i","n",".">>
UrlLink ==
    <<"h","t","t","p",":","/","/","c",".","i","n">>
IdCircularCode ==
    <<"S","E","B","I","/","H","O","/","M","R","D","/","D","S","A","/","C",
      "I","R","/","2","0","2","3","/","4","5">>
IdRegulation91 ==
    <<"R","e","g","u","l","a","t","i","o","n"," ","9","(","1",")">>
IdRegulation123 ==
    <<"R","e","g","u","l","a","t","i","o","n"," ","1","2","(","3",")">>
IdRegulation123A ==
    <<"R","e","g","u","l","a","t","i","o","n"," ","1","2","(","3","A",")">>

\* a text item of getTextContent and a link annotation of getAnnotations
Item(s) == [str |-> Some(s)]
LinkAnnot(u) == [subtype |-> "Link", url |-> Some(u)]

PageCircularAndRegulation == [items |-> <<Item(TextCircularAndRegulation)>>, annots |-> <<>>]
PageTwoSubClauses == [items |-> <<Item(TextTwoSubClauses)>>, annots |-> <<>>]
PageCodeAndClause == [items |-> <<Item(TextCodeAndClause)>>, annots |-> <<>>]
PageSchedules ==
    [items |-> <<Item(TextScheduleOne), Item(TextScheduleTwo)>>, annots |-> <<>>]
PageBrokenWord ==
    [items |-> <<Item(TextBrokenWord), [str |-> None], Item(TextBrokenRest)>>,
     annots |-> <<LinkAnnot(UrlLink), [subtype |-> "Widget", url |-> None],
                  [subtype |-> "Link", url |-> None]>>]
PageClausesWithUrls ==
    [items |-> <<Item(TextClauseFour), Item(TextClauseFive)>>, annots |-> <<>>]
PageNothing == [items |-> <<Item(TextNothing)>>, annots |-> <<>>]

PagePool ==
    {PageCircularAndRegulation, PageTwoSubClauses, PageCodeAndClause, PageSchedules,
     PageBrokenWord, PageClausesWithUrls, PageNothing}

\* the most pages of a document
MaxPages == 2
\* the largest --batch
MaxBatch == 2

SeqsUpTo(S, n) == UNION {[1..k -> S] : k \in 0..n}

Documents == SeqsUpTo(PagePool, MaxPages) \ {<<>>}

\* the command line and the environment: --no-llm, --batch (a number >= 1),
\* --csv, OPENAI_API_KEY.  A run with --no-llm reads neither batchSize nor the
\* key, and a run without the key stops before it reads batchSize or outCsv:
\* the values a run never reads are fixed.
CommandLines ==
    {c \in [noLlm : BOOLEAN, batchSize : 1..MaxBatch, outCsv : BOOLEAN, apiKey : BOOLEAN] :
        /\ c.noLlm => c.batchSize = 1 /\ c.apiKey
        /\ ~c.apiKey => c.batchSize = 1 /\ c.outCsv}

\* what the Normalizer may make of a candidate
LlmItem(c) == [RulesItem(c) EXCEPT !.identifier = Some(c.match), !.confidence = 9]
BadItem(c) == [RulesItem(c) EXCEPT !.pages = <<>>]

\* the outcomes of one client.responses.create call: the call rejects, or it
\* resolves with an output_text that is no JSON (text = None) or is the JSON
\* of some value
Responses(slice) ==
    {[rejected |-> TRUE, text |-> None], [rejected |-> FALSE, text |-> None]}
    \cup {[rejected |-> FALSE, text |-> Some([references |-> refs])] :
            refs \in {[k \in DOMAIN slice |-> LlmItem(slice[k])],
                      <<BadItem(slice[1])>>}}

(***************************************************************************)
(* State                                                                    *)
(***************************************************************************)
VARIABLES
    pc,          \* the control point of the run
    argv,        \* the command line and environment
    pdf,         \* the document: its pages' text items and annotations
    docState,    \* "none", "open" (getDocument resolved), "destroyed"
    i,           \* extractPages' page counter
    text,        \* extractPages' text of the page being read
    out,         \* extractPages' out
    candidates,  \* main's candidates
    bi,          \* normalizeWithLLM's loop index i
    calls,       \* the Normalizer calls so far: the batch sent and the outcome
    normalized,  \* normalizeWithLLM's out, main's normalized, dedupe's items
    idx,         \* the number of items dedupe's loop has taken
    map,         \* dedupe's map
    jsonFile,    \* the content of outJson, None while unwritten
    csvFile,     \* the number of lines of outCsv, None while unwritten
    exitCode,    \* None while running
    err          \* the stage whose error reached main's catch, None if none

vars ==
    <<pc, argv, pdf, docState, i, text, out, candidates, bi, calls, normalized,
      idx, map, jsonFile, csvFile, exitCode, err>>

extractVars == <<docState, i, text, out>>
llmVars == <<bi, calls, normalized>>
dedupeVars == <<idx, map>>
fileVars == <<jsonFile, csvFile>>

Init ==
    /\ pc = "start"
    /\ argv \in CommandLines
    /\ pdf \in Documents
    /\ docState = "none"
    /\ i = 0
    /\ text = <<>>
    /\ out = <<>>
    /\ candidates = <<>>
    /\ bi = 0
    /\ calls = <<>>
    /\ normalized = <<>>
    /\ idx = 0
    /\ map = <<>>
    /\ jsonFile = None
    /\ csvFile = None
    /\ exitCode = None
    /\ err = None

\* main's catch: console.error and process.exit(1)
Fatal(stage) ==
    /\ pc' = "exit"
    /\ exitCode' = Some(1)
    /\ err' = Some(stage)

(***************************************************************************)
(* extractPages (hybrid_extract.ts, lines 165-199)                          *)
(***************************************************************************)
\* readFileSync and getDocument(...).promise
OpenDocument ==
    /\ pc = "start"
    /\ \E ok \in BOOLEAN :
         IF ok
         THEN /\ docState' = "open"
              /\ i' = 1
              /\ pc' = IF 1 <= Len(pdf) THEN "getPage" ELSE "destroy"
              /\ UNCHANGED <<exitCode, err>>
         ELSE /\ Fatal("open")
              /\ UNCHANGED <<docState, i>>
    /\ UNCHANGED <<argv, pdf, text, out, candidates, llmVars, dedupeVars, fileVars>>

\* await doc.getPage(i)
GetPage ==
    /\ pc = "getPage"
    /\ \E ok \in BOOLEAN :
         IF ok THEN pc' = "getText" /\ UNCHANGED <<exitCode, err>>
         ELSE Fatal("getPage")
    /\ UNCHANGED <<argv, pdf, extractVars, candidates, llmVars, dedupeVars, fileVars>>

\* (textContent.items).map(...).join(" ")
ItemsText(its) ==
    Join([k \in DOMAIN its |-> IF its[k].str # None THEN Val(its[k].str) ELSE <<>>],
         <<" ">>)

\* await page.getTextContent() and the dehyphenated text
GetTextContent ==
    /\ pc = "getText"
    /\ \E ok \in BOOLEAN :
         IF ok
         THEN /\ text' = dehyphenate(ItemsText(pdf[i].items))
              /\ pc' = "getAnnots"
              /\ UNCHANGED <<exitCode, err>>
         ELSE Fatal("getTextContent") /\ UNCHANGED text
    /\ UNCHANGED <<argv, pdf, docState, i, out, candidates, llmVars, dedupeVars, fileVars>>

\* annots.filter((a) => a && a.subtype === "Link" && a.url).map((a) => String(a.url))
LinkUrls(annots) ==
    LET links == SelectSeq(annots, LAMBDA a : a.subtype = "Link" /\ TruthyStr(a.url))
    IN [k \in DOMAIN links |-> Val(links[k].url)]

\* await page.getAnnotations(), out.push and the loop's i++ and test
GetAnnotations ==
    /\ pc = "getAnnots"
    /\ \E ok \in BOOLEAN :
         IF ok
         THEN /\ out' = Append(out, [page |-> i, text |-> text,
                                     urls |-> LinkUrls(pdf[i].annots)])
              /\ i' = i + 1
              /\ pc' = IF i + 1 <= Len(pdf) THEN "getPage" ELSE "destroy"
              /\ UNCHANGED <<exitCode, err>>
         ELSE Fatal("getAnnotations") /\ UNCHANGED <<out, i>>
    /\ UNCHANGED <<argv, pdf, docState, text, candidates, llmVars, dedupeVars, fileVars>>

\* try { await doc.destroy() } catch {}; return out: an error of destroy is
\* swallowed, so both outcomes continue alike
DestroyAndReturn ==
    /\ pc = "destroy"
    /\ docState' = "destroyed"
    /\ pc' = "find"
    /\ UNCHANGED <<argv, pdf, i, text, out, candidates, llmVars, dedupeVars, fileVars,
                   exitCode, err>>

(***************************************************************************)
(* main, steps 2 and 3 (hybrid_extract.ts, lines 345-386)                   *)
(***************************************************************************)
\* findCandidates(pages) and the exit when there is none
FindCandidates ==
    /\ pc = "find"
    /\ candidates' = findCandidates(out)
    /\ IF Len(candidates') = 0
       THEN /\ jsonFile' = Some(<<>>)
            /\ exitCode' = Some(0)
            /\ pc' = "exit"
       ELSE /\ pc' = IF argv.noLlm THEN "rules" ELSE "llm"
            /\ UNCHANGED <<jsonFile, exitCode>>
    /\ UNCHANGED <<argv, pdf, extractVars, llmVars, dedupeVars, csvFile, err>>

\* the --no-llm branch, and the call of dedupe
RulesOnlyMap ==
    /\ pc = "rules"
    /\ normalized' = RulesOnly(candidates)
    /\ idx' = 0
    /\ map' = <<>>
    /\ pc' = "dedupe"
    /\ UNCHANGED <<argv, pdf, extractVars, candidates, bi, calls, fileVars, exitCode, err>>

(***************************************************************************)
(* normalizeWithLLM (hybrid_extract.ts, lines 247-306)                      *)
(***************************************************************************)
\* the check of OPENAI_API_KEY and the loop's initialisation
LlmStart ==
    /\ pc = "llm"
    /\ IF argv.apiKey
       THEN pc' = "llmLoop" /\ bi' = 0 /\ UNCHANGED <<exitCode, err>>
       ELSE Fatal("normalizer") /\ UNCHANGED bi
    /\ UNCHANGED <<argv, pdf, extractVars, candidates, calls, normalized, dedupeVars,
                   fileVars>>

\* a slice that runs one candidate too far
BatchSliceTooLong(cs, k, batch) ==
    SubSeq(cs, k + 1, IF k + batch + 1 <= Len(cs) THEN k + batch + 1 ELSE Len(cs))

\* allCandidates.slice(i, i + batch)
BatchSlice(cs, k, batch) ==
    SubSeq(cs, k + 1, IF k + batch <= Len(cs) THEN k + batch ELSE Len(cs))

\* an acceptance that leaves out ReferenceEnvelope.parse
NormalizerOkUnvalidated(resp) ==
    /\ ~resp.rejected
    /\ resp.text # None

\* the call resolved, JSON.parse returned and ReferenceEnvelope.parse accepted
NormalizerOk(resp) ==
    /\ ~resp.rejected
    /\ resp.text # None
    /\ EnvelopeValid(Val(resp.text))

\* one iteration of the loop: the call, the parse and out.push
LlmCall ==
    /\ pc = "llmLoop"
    /\ bi < Len(candidates)
    /\ LET slice == BatchSlice(candidates, bi, argv.batchSize)
       IN \E resp \in Responses(slice) :
            /\ calls' = Append(calls, [batch |-> slice, resp |-> resp])
            /\ IF NormalizerOk(resp)
               THEN /\ normalized' = normalized \o Val(resp.text).references
                    /\ bi' = bi + argv.batchSize
                    /\ UNCHANGED <<pc, exitCode, err>>
               ELSE /\ Fatal("normalizer")
                    /\ UNCHANGED <<normalized, bi>>
    /\ UNCHANGED <<argv, pdf, extractVars, candidates, dedupeVars, fileVars>>

\* the loop's exit, return out, and the call of dedupe
LlmReturn ==
    /\ pc = "llmLoop"
    /\ bi >= Len(candidates)
    /\ idx' = 0
    /\ map' = <<>>
    /\ pc' = "dedupe"
    /\ UNCHANGED <<argv, pdf, extractVars, candidates, llmVars, fileVars, exitCode, err>>

(***************************************************************************)
(* dedupe's loop, and main, step 5 (hybrid_extract.ts, lines 317-398)       *)
(***************************************************************************)
DedupeIter ==
    /\ pc = "dedupe"
    /\ idx < Len(normalized)
    /\ map' = DedupeStep(map, normalized[idx + 1])
    /\ idx' = idx + 1
    /\ UNCHANGED <<pc, argv, pdf, extractVars, candidates, llmVars, fileVars,
                   exitCode, err>>

\* toCsv(rows): the header and one line for each row
CsvLines(rows) == Len(rows) + 1

\* return Array.from(map.values()); fs.writeFileSync(outJson, ...)
WriteJson ==
    /\ pc = "dedupe"
    /\ idx = Len(normalized)
    /\ \E ok \in BOOLEAN :
         IF ok
         THEN /\ jsonFile' = Some(MapValues(map))
              /\ IF argv.outCsv
                 THEN pc' = "csv" /\ UNCHANGED exitCode
                 ELSE pc' = "exit" /\ exitCode' = Some(0)
              /\ UNCHANGED err
         ELSE Fatal("write") /\ UNCHANGED jsonFile
    /\ UNCHANGED <<argv, pdf, extractVars, candidates, llmVars, dedupeVars, csvFile>>

\* if (outCsv) fs.writeFileSync(outCsv, toCsv(merged))
WriteCsv ==
    /\ pc = "csv"
    /\ \E ok \in BOOLEAN :
         IF ok
         THEN /\ csvFile' = Some(CsvLines(MapValues(map)))
              /\ pc' = "exit"
              /\ exitCode' = Some(0)
              /\ UNCHANGED err
         ELSE Fatal("write") /\ UNCHANGED csvFile
    /\ UNCHANGED <<argv, pdf, extractVars, candidates, llmVars, dedupeVars, jsonFile>>

Next ==
    \/ OpenDocument
    \/ GetPage
    \/ GetTextContent
    \/ GetAnnotations
    \/ DestroyAndReturn
    \/ FindCandidates
    \/ RulesOnlyMap
    \/ LlmStart
    \/ LlmCall
    \/ LlmReturn
    \/ DedupeIter
    \/ WriteJson
    \/ WriteCsv

Spec == Init /\ [][Next]_vars

(***************************************************************************)
(* dedupe on its own: the loop over lists of reference items                *)
(***************************************************************************)
\* the longest list given to dedupe
MaxItems == 3

BaseItem ==
    [type |-> "Circular", title |-> None, identifier |-> Some(<<"a">>), url |-> None,
     anchorPageHint |-> None, pages |-> <<1>>, snippets |-> <<<<"s">>>>,
     confidence |-> 4]

\* identifier and title pairs: equal up to case, null and empty, and with '|'
KeyTexts ==
    <<[identifier |-> Some(<<"a">>), title |-> None],
      [identifier |-> Some(<<"A">>), title |-> None],
      [identifier |-> Some(<<"a", "|">>), title |-> None],
      [identifier |-> Some(<<"a">>), title |-> Some(<<"|">>)],
      [identifier |-> None, title |-> Some(<<>>)]>>

\* items that differ in their key fields; each has a page of its own
KeyPool ==
    {[BaseItem EXCEPT !.type = t, !.identifier = KeyTexts[n].identifier,
                      !.title = KeyTexts[n].title,
                      !.pages = <<IF t = "Circular" THEN n ELSE n + Len(KeyTexts)>>] :
        t \in {"Circular", "Other"}, n \in DOMAIN KeyTexts}

\* items of one key that differ in their evidence
EvidencePool ==
    {[BaseItem EXCEPT !.pages = p, !.snippets = s, !.confidence = c] :
        p \in {<<2>>, <<3, 1>>, <<2, 2, 1>>},
        s \in {<<<<"s">>>>, <<<<"t">>, <<"s">>, <<"t">>>>},
        c \in {4, 9}}

\* items of one key that differ in url and anchorPageHint
FramePool ==
    {[BaseItem EXCEPT !.url = u, !.anchorPageHint = h] :
        u \in {None, Some(<<"u">>), Some(<<"v">>)},
        h \in {None, Some(0), Some(1), Some(2)}}

DedupeInputs ==
    SeqsUpTo(KeyPool, MaxItems) \cup SeqsUpTo(EvidencePool, MaxItems)
    \cup SeqsUpTo(FramePool, MaxItems)

\* dedupe is entered with a list of valid items: main's state at its step 4
InitDedupe ==
    /\ pc = "dedupe"
    /\ argv = [noLlm |-> FALSE, batchSize |-> 1, outCsv |-> FALSE, apiKey |-> TRUE]
    /\ pdf = <<>>
    /\ docState = "destroyed"
    /\ i = 1
    /\ text = <<>>
    /\ out = <<>>
    /\ candidates = <<>>
    /\ bi = 0
    /\ calls = <<>>
    /\ normalized \in DedupeInputs
    /\ idx = 0
    /\ map = <<>>
    /\ jsonFile = None
    /\ csvFile = None
    /\ exitCode = None
    /\ err = None

NextDedupe == DedupeIter

SpecDedupe == InitDedupe /\ [][NextDedupe]_vars

(***************************************************************************)
(* Properties of dedupe                                                     *)
(***************************************************************************)
DedupeDone == pc = "dedupe" /\ idx = Len(normalized)

\* identifier and title of two items are equal, ignoring case
SameTextsIgnoringCase(r, q) ==
    /\ toLowerCase(OrEmpty(r.identifier)) = toLowerCase(OrEmpty(q.identifier))
    /\ toLowerCase(OrEmpty(r.title)) = toLowerCase(OrEmpty(q.title))

\* a Circular item at position a is followed by an Other item at position b
\* with the same identifier and title, ignoring case
CircularThenOther(a, b) ==
    /\ a < b
    /\ normalized[a].type = "Circular"
    /\ normalized[b].type = "Other"
    /\ SameTextsIgnoringCase(normalized[a], normalized[b])

\* the position in dedupe's result of the record that input item k went into
OutputOf(k) == MapIndex(map, key(normalized[k]))

\* C1, as claimed: a Circular item followed by an Other item with the same
\* identifier and title (ignoring case) is merged with it into one output
\* record, and that record's type is Circular.
C1_MergedAsCircular ==
    DedupeDone =>
        \A a, b \in DOMAIN normalized :
            CircularThenOther(a, b) =>
                /\ OutputOf(a) = OutputOf(b)
                /\ map[OutputOf(a)].v.type = "Circular"

\* C1, amended: such a pair is never merged, because the type is part of the
\* merge key: dedupe returns a record of type Circular for the first and a
\* separate record of type Other for the second, the Circular one first.
C1_KeptApartByType ==
    DedupeDone =>
        \A a, b \in DOMAIN normalized :
            CircularThenOther(a, b) =>
                /\ OutputOf(a) # OutputOf(b)
                /\ map[OutputOf(a)].v.type = "Circular"
                /\ map[OutputOf(b)].v.type = "Other"
                /\ (Len(normalized) = 2 => Len(map) = 2 /\ OutputOf(a) = 1)

\* dedupe has returned for a Circular item followed by its Other namesake
C1_Witness ==
    /\ DedupeDone
    /\ Len(normalized) = 2
    /\ CircularThenOther(1, 2)
    /\ normalized[1].identifier # normalized[2].identifier

\* the orderings of a list of three
Orderings3(rs) ==
    {<<rs[p[1]], rs[p[2]], rs[p[3]]>> :
        p \in {q \in [1..3 -> 1..3] : \A x, y \in 1..3 : x # y => q[x] # q[y]}}

ThreeOfOneKey ==
    /\ Len(normalized) = 3
    /\ \A k \in 1..3 : key(normalized[k]) = key(normalized[1])

MaxConfidence(rs) ==
    CHOOSE c \in {rs[k].confidence : k \in DOMAIN rs} :
        \A k \in DOMAIN rs : rs[k].confidence <= c

\* C2: for three items that share a merge key, dedupe of every ordering of
\* them returns one record with the same pages sequence and the same set of
\* snippets as the loop left in the map, and with the largest of the three
\* confidences.
C2_OrderIndependent ==
    (DedupeDone /\ ThreeOfOneKey) =>
        /\ Len(map) = 1
        /\ \A rs \in Orderings3(normalized) :
             LET o == dedupe(rs)
             IN /\ Len(o) = 1
                /\ o[1].pages = map[1].v.pages
                /\ Range(o[1].snippets) = Range(map[1].v.snippets)
                /\ o[1].confidence = MaxConfidence(normalized)
                /\ map[1].v.confidence = MaxConfidence(normalized)

\* three items of one key with different pages, snippets and confidences, the
\* largest confidence not last, have been merged
C2_Witness ==
    /\ DedupeDone
    /\ ThreeOfOneKey
    /\ normalized[1].pages # normalized[2].pages
    /\ normalized[2].pages # normalized[3].pages
    /\ normalized[1].snippets # normalized[3].snippets
    /\ normalized[2].confidence > normalized[3].confidence
    /\ Len(map[1].v.pages) = 3

\* dedupe's loop is about to merge item idx + 1 into a stored record
AboutToMerge ==
    /\ pc = "dedupe"
    /\ idx < Len(normalized)
    /\ MapIndex(map, key(normalized[idx + 1])) # 0

\* C7, as claimed: a merge changes the stored url (anchorPageHint) only if the
\* stored record has none and the incoming item has one, and then adopts the
\* incoming value; a stored anchorPageHint that is present, 0 included, is
\* left unchanged, and an incoming one, 0 included, is adopted when the
\* stored one is absent.
C7_AdoptOnlyWhenAbsent ==
    [][AboutToMerge =>
         LET j == MapIndex(map, key(normalized[idx + 1]))
             found == map[j].v
             r == normalized[idx + 1]
             after == map'[j].v
         IN /\ after.url =
                 IF found.url = None /\ r.url # None THEN r.url ELSE found.url
            /\ after.anchorPageHint =
                 IF found.anchorPageHint = None /\ r.anchorPageHint # None
                 THEN r.anchorPageHint ELSE found.anchorPageHint]_vars

\* the merge key as the triple of type, lower-cased identifier or empty, and
\* lower-cased title or empty
Triple(r) ==
    <<r.type, toLowerCase(OrEmpty(r.identifier)), toLowerCase(OrEmpty(r.title))>>

\* C8, as claimed: dedupe returns exactly one record for each distinct triple
\* of the input, and two input items go into the same output record if and
\* only if their triples are equal, also when identifier or title hold '|'.
C8_OneRecordPerTriple ==
    DedupeDone =>
        /\ Len(map) = Cardinality({Triple(normalized[k]) : k \in DOMAIN normalized})
        /\ \A a, b \in DOMAIN normalized :
             (OutputOf(a) = OutputOf(b)) <=> (Triple(normalized[a]) = Triple(normalized[b]))

\* the items among the first n of the input that have key k
SeenUnder(k, n) == {h \in 1..n : key(normalized[h]) = k}

StrictlyAscending(xs) == \A a, b \in DOMAIN xs : a < b => xs[a] < xs[b]
NoDuplicate(xs) == \A a, b \in DOMAIN xs : a # b => xs[a] # xs[b]

\* C9: after every iteration of dedupe's loop, each stored record's pages are
\* non-empty, strictly ascending and the union of the pages of the items
\* taken so far under the record's key, and its snippets hold no duplicate
\* and are the union of those items' snippets.
C9_PagesAndSnippets ==
    pc = "dedupe" =>
        \A j \in DOMAIN map :
            LET v == map[j].v
                seen == SeenUnder(map[j].k, idx)
            IN /\ Len(v.pages) >= 1
               /\ StrictlyAscending(v.pages)
               /\ Range(v.pages) = UNION {Range(normalized[h].pages) : h \in seen}
               /\ NoDuplicate(v.snippets)
               /\ Range(v.snippets) = UNION {Range(normalized[h].snippets) : h \in seen}
               /\ seen # {}

\* a record first stored with unsorted, repeated pages and repeated snippets
\* has since been merged with another item's pages
C9_Witness ==
    /\ pc = "dedupe"
    /\ idx >= 2
    /\ Len(map) = 1
    /\ normalized[1].pages = <<2, 2, 1>>
    /\ normalized[1].snippets = <<<<"t">>, <<"s">>, <<"t">>>>
    /\ normalized[2].pages = <<3, 1>>
    /\ map[1].v.pages = <<1, 2, 3>>

(***************************************************************************)
(* Properties of the run                                                    *)
(***************************************************************************)
\* the run ended without an error
RunSucceeded == pc = "exit" /\ err = None

\* C3, as claimed: in the rules-only path, the one-page document with the
\* sentence "Refer to SEBI/HO/MRD/DSA/CIR/2023/45 dated Jan 1, 2023 and
\* Regulation 9(1)." gives exactly two final records: a Circular with that
\* code as identifier and a Regulation with identifier "Regulation 9(1)",
\* both with confidence 0.4 and pages [1].
C3_CircularAndRegulation ==
    (RunSucceeded /\ argv.noLlm /\ pdf = <<PageCircularAndRegulation>>) =>
        /\ jsonFile # None
        /\ LET merged == Val(jsonFile)
           IN /\ Len(merged) = 2
              /\ \E a, b \in DOMAIN merged :
                   /\ merged[a].type = "Circular"
                   /\ merged[a].identifier = Some(IdCircularCode)
                   /\ merged[a].confidence = 4
                   /\ merged[a].pages = <<1>>
                   /\ merged[b].type = "Regulation"
                   /\ merged[b].identifier = Some(IdRegulation91)
                   /\ merged[b].confidence = 4
                   /\ merged[b].pages = <<1>>

\* findCandidates has returned
CandidatesFound ==
    \/ pc \in {"rules", "llm", "llmLoop", "dedupe", "csv"}
    \/ pc = "exit" /\ err \notin {Some("open"), Some("getPage"),
                                  Some("getTextContent"), Some("getAnnotations")}

\* the regulation-kind candidates of page k
RegulationCandidates(k) ==
    SelectSeq(candidates, LAMBDA c : c.page = k /\ c.kind = "regulation")

\* C4, as claimed: the regulation pattern on "See Regulation 12(3) and 12(3A)
\* of the Regulations." gives two separate candidates, with the match strings
\* "Regulation 12(3)" and "Regulation 12(3A)".
C4_TwoSubClauseMatches ==
    CandidatesFound =>
        \A k \in DOMAIN pdf :
            pdf[k] = PageTwoSubClauses =>
                /\ Len(RegulationCandidates(k)) = 2
                /\ {c.match : c \in Range(RegulationCandidates(k))}
                     = {IdRegulation123, IdRegulation123A}

\* C4, amended: the regulation pattern on that sentence gives exactly one
\* candidate, with the match string "Regulation 12(3)"; "12(3A)" is in no
\* match, and the two sub-clauses are never reported as a single match.
C4_OneSubClauseMatch ==
    CandidatesFound =>
        \A k \in DOMAIN pdf :
            pdf[k] = PageTwoSubClauses =>
                /\ Len(RegulationCandidates(k)) = 1
                /\ RegulationCandidates(k)[1].match = IdRegulation123
                /\ RegulationCandidates(k)[1].sentence = TextTwoSubClauses

\* the candidates of a document with that sentence on its second page
C4_Witness ==
    /\ CandidatesFound
    /\ Len(pdf) = 2
    /\ pdf[2] = PageTwoSubClauses
    /\ Len(RegulationCandidates(2)) >= 1

\* C5, as claimed: once extractPages has opened the document, doc.destroy has
\* been called whenever extractPages is left, by return or by a failure of
\* getPage, getTextContent or getAnnotations.
C5_DocumentReleased ==
    (docState # "none" /\ pc \notin {"getPage", "getText", "getAnnots", "destroy"})
        => docState = "destroyed"

\* the run got as far as a Normalizer call
UsesNormalizer == ~argv.noLlm /\ Len(calls) > 0

\* the call resolved with a payload that passes the schema
BatchSucceeded(call) ==
    /\ ~call.resp.rejected
    /\ call.resp.text # None
    /\ EnvelopeValid(Val(call.resp.text))

\* ceil(n / b)
CeilDiv(n, b) == (n + b - 1) \div b

\* C6: in a run that uses the Normalizer, once the call of a batch has failed
\* or returned a payload that does not pass the schema, the run has ended with
\* exit code 1 and neither output file is written; a written output file
\* means that every batch has been sent and has succeeded.
C6_NoOutputAfterFailedBatch ==
    UsesNormalizer =>
        /\ (\E k \in DOMAIN calls : ~BatchSucceeded(calls[k])) =>
              /\ pc = "exit"
              /\ exitCode = Some(1)
              /\ jsonFile = None
              /\ csvFile = None
        /\ (jsonFile # None \/ csvFile # None) =>
              /\ Len(calls) = CeilDiv(Len(candidates), argv.batchSize)
              /\ \A k \in DOMAIN calls : BatchSucceeded(calls[k])

\* a run that was aborted by a payload failing the schema in a later batch
C6_Witness ==
    /\ UsesNormalizer
    /\ Len(calls) >= 2
    /\ BatchSucceeded(calls[1])
    /\ calls[Len(calls)].resp.text # None
    /\ ~BatchSucceeded(calls[Len(calls)])
    /\ argv.outCsv
    /\ pc = "exit"

\* normalizeWithLLM has returned
LlmReturned ==
    /\ ~argv.noLlm
    /\ \/ pc \in {"dedupe", "csv"}
       \/ pc = "exit" /\ Len(candidates) > 0 /\ err \in {None, Some("write")}

\* the batches sent so far
Batches == [k \in DOMAIN calls |-> calls[k].batch]

\* C10: normalizeWithLLM sends the candidates in list order in batches of at
\* least one and at most batchSize candidates, each candidate once; the loop
\* index is batchSize times the number of calls, which never exceeds
\* ceil(n / batchSize); when the function has returned it has made exactly
\* ceil(n / batchSize) calls, the batches concatenated are the candidate list,
\* and the result is the concatenation of the batches' references in order.
C10_Batching ==
    ~argv.noLlm =>
        /\ \A k \in DOMAIN calls :
             Len(calls[k].batch) >= 1 /\ Len(calls[k].batch) <= argv.batchSize
        /\ Len(Concat(Batches)) <= Len(candidates)
        /\ Concat(Batches) = SubSeq(candidates, 1, Len(Concat(Batches)))
        /\ Len(calls) <= CeilDiv(Len(candidates), argv.batchSize)
        /\ pc = "llmLoop" => bi = argv.batchSize * Len(calls)
        /\ LlmReturned =>
             /\ Len(calls) = CeilDiv(Len(candidates), argv.batchSize)
             /\ Concat(Batches) = candidates
             /\ normalized =
                  Concat([k \in DOMAIN calls |-> Val(calls[k].resp.text).references])

\* normalizeWithLLM has returned after several batches, the last one short
C10_Witness ==
    /\ LlmReturned
    /\ argv.batchSize >= 2
    /\ Len(calls) >= 2
    /\ Len(calls[Len(calls)].batch) < argv.batchSize

(***************************************************************************)
(* Properties of the rules-only records                                     *)
(***************************************************************************)
\* the kinds whose match becomes the record's identifier (lines 377-378)
IdentifiedKinds == {"circularCode", "regulation"}

\* the types that candidates of the other kinds map to
UnidentifiedTypes ==
    {"URL", "Schedule", "Chapter", "Clause", "Act Section", "Master Circular",
     "Regulation"}

\* the rules-only run has written its final list
RulesListWritten == argv.noLlm /\ jsonFile # None

\* the candidates, by position, that have no identifying kind and map to type t
UnidentifiedOf(t) ==
    {k \in DOMAIN candidates :
        candidates[k].kind \notin IdentifiedKinds /\ KindType(candidates[k].kind) = t}

\* those of them whose record carries a non-empty url
WithUrl(t) ==
    {k \in UnidentifiedOf(t) :
        normalized[k].url # None /\ Val(normalized[k].url) # <<>>}

\* the least number of a non-empty set of numbers
Least(S) == CHOOSE k \in S : \A j \in S : k <= j

\* the records of the final list, by position, of type t without identifier
AbsentIdentifierRecords(t) ==
    {j \in DOMAIN Val(jsonFile) :
        Val(jsonFile)[j].type = t /\ Val(jsonFile)[j].identifier = None}

\* C11: in the rules-only path every candidate whose kind is neither
\* circularCode nor regulation gets an absent identifier and an absent title;
\* the final list holds at most one record of each of the types URL, Schedule,
\* Chapter, Clause, Act Section and Master Circular, and at most one Regulation
\* record with an absent identifier; such a record exists exactly if a
\* candidate of that sort was found, and its url is the url of the first of
\* these candidates that had a non-empty url (absent if none had one), so
\* that later differing urls are not retained.
C11_OneRecordPerUnidentifiedType ==
    RulesListWritten =>
        /\ Len(normalized) = Len(candidates)
        /\ \A k \in DOMAIN candidates :
             candidates[k].kind \notin IdentifiedKinds =>
                 normalized[k].identifier = None /\ normalized[k].title = None
        /\ \A t \in UnidentifiedTypes \ {"Regulation"} :
             Cardinality({j \in DOMAIN Val(jsonFile) : Val(jsonFile)[j].type = t}) <= 1
        /\ \A t \in UnidentifiedTypes :
             /\ Cardinality(AbsentIdentifierRecords(t)) <= 1
             /\ (AbsentIdentifierRecords(t) = {}) = (UnidentifiedOf(t) = {})
             /\ \A j \in AbsentIdentifierRecords(t) :
                  Val(jsonFile)[j].url =
                      IF WithUrl(t) = {} THEN None ELSE normalized[Least(WithUrl(t))].url

\* a rules-only run has written a list in which one Clause record stands for
\* three candidates, the first without url and the next two with different
\* urls, next to one Regulation record without identifier for two candidates
C11_Witness ==
    /\ RulesListWritten
    /\ Cardinality(UnidentifiedOf("Clause")) = 3
    /\ Least(UnidentifiedOf("Clause")) \notin WithUrl("Clause")
    /\ Cardinality({normalized[k].url : k \in WithUrl("Clause")}) = 2
    /\ \E j \in AbsentIdentifierRecords("Clause") : Val(jsonFile)[j].url = Some(UrlA)
    /\ Cardinality(UnidentifiedOf("Regulation")) = 2
    /\ Cardinality(AbsentIdentifierRecords("Regulation")) = 1

====
